---------------------------- MODULE Spec2Model ----------------------------
(***************************************************************************)
(* A model of runner.py: a job runner that watches a directory, keeps a    *)
(* pending set, a running map and a done map under one lock, runs an       *)
(* external command per job on a pool of worker threads whose desired      *)
(* size is changed from the keyboard, and appends started/done/failed      *)
(* events to a log that is replayed when the process starts.               *)
(*                                                                         *)
(* Threads: the control thread (main, _control_loop), the update thread    *)
(* (_update_loop) and the worker threads (_worker).  A region run under    *)
(* `with self._lock` is one step, taken when the lock is free, except the  *)
(* claim of _job_get, which is two: the admission test, and the pop that   *)
(* follows it with the lock still held.  _nworkers is written outside the  *)
(* lock, so a keystroke can fall between the two.                          *)
(*                                                                         *)
(* Spec is the program with crashes and restarts; LiveSpec is one run      *)
(* under fair scheduling; ReplaySpec is startup on any log file; EtaSpec   *)
(* is a call of _eta on any arguments.                                     *)
(***************************************************************************)
EXTENDS Integers, Sequences, FiniteSets, TLC

\* ------------------------------------------------------------- bounds
MaxThreads == 2     \* worker threads the control thread may spawn
MaxTime == 2        \* ticks of the wall clock
MaxLog == 4         \* lines of the event log
MaxEtaWorkers == 3  \* nworkers of a call of _eta studied on its own
MaxPending == 6     \* njobs of such a call
MaxStart == 3       \* the start times and the time of such a call
MaxReplay == 3      \* lines of a log file found at startup

\* --------------------------------------------------- the environment
\* A file name is the sequence of its space-free parts: <<"c", "d.txt">> is
\* the entry "c d.txt".
Names == {<<"a.txt">>, <<"b.txt">>, <<"c", "d.txt">>, <<".h.txt">>, <<"n.log">>}

\* The entries created in the watched directory, in the order of their creation;
\* the entries of one set are created together
Arrivals == << {<<"a.txt">>, <<".h.txt">>}, {<<"b.txt">>, <<"n.log">>}, {<<"c", "d.txt">>} >>

\* fname.startswith('.')
StartsWithDot(fname) == fname[1] = ".h.txt"

\* fnmatch.fnmatch(fname, self._pattern), the pattern being *.txt
FnMatch(fname) == fname[Len(fname)] \in {"a.txt", "b.txt", "d.txt", ".h.txt"}

Workers == 1..MaxThreads
NoJob == <<>>
Free == 0
UpdT == 0 - 1
CtlT == 0 - 2

VARIABLES
    proc,        \* "down" (not started / crashed), "up", "exited" (startup failed)
    exit,        \* why startup failed: [kind, line]
    log,         \* the log file: a sequence of lines, each the sequence of its fields
    files,       \* the entries of the watched directory
    dirMtime,    \* its st_mtime
    clock,       \* datetime.now()
    jobs,        \* self._jobs: the pending set
    started,     \* self._started: job -> start timestamp
    done,        \* self._done: job -> duration
    nworkers,    \* self._nworkers: the desired worker count
    mtime,       \* self._mtime
    lock,        \* holder of self._lock, or Free
    nthreads,    \* the local `running` of _control_loop: threads spawned
    cpc,         \* where the control thread is
    upc,         \* where the update thread is
    ufiles,      \* the local `files` of _update_jobs
    wpc,         \* where each worker thread is
    wjob,        \* the local `job` of each worker
    wts,         \* the local `ts` of _job_done / _job_retry
    eta_args,    \* the arguments of a call of _eta studied on its own, or NoCall
    eta_ret      \* <<max(finish)>> at the end of that call, NoCall before

vars == <<proc, exit, log, files, dirMtime, clock, jobs, started, done, nworkers,
          mtime, lock, nthreads, cpc, upc, ufiles, wpc, wjob, wts, eta_args, eta_ret>>

\* ------------------------------------------------------------ helpers
EmptyMap == [j \in {} |-> 0]

Put(m, k, v) == [x \in (DOMAIN m) \cup {k} |-> IF x = k THEN v ELSE m[x]]

Pop(m, k) == [x \in (DOMAIN m) \ {k} |-> m[x]]

\* ts.strftime(ISO_8601): the text of a timestamp
Strftime(ts) == ToString(ts)

\* Whether datetime.strptime(text, ISO_8601) succeeds
Parsable(text) == \E t \in 0..MaxTime : ToString(t) = text

\* datetime.strptime(text, ISO_8601).timestamp()
Strptime(text) == CHOOSE t \in 0..MaxTime : ToString(t) = text

\* The fields line.rstrip().split(' ') finds in the line _log_write prints
LogLine(ts, event, job) == <<Strftime(ts), event>> \o job

NoExit == [kind |-> "none", line |-> 0]

NoCall == <<>>

\* ------------------------------------------------------------- replay
\* Whether line.rstrip().split(' ') and strptime raise on the fields of a line
Malformed(fields) == Len(fields) # 3 \/ ~Parsable(fields[1])

\* A mutant of ReplayLine: a started line does not replace the start time the
\* job already has
ReplayLineKeepsFirstStart(st, dn, fields) ==
    IF Malformed(fields) THEN [kind |-> "LogParseError", st |-> st, dn |-> dn]
    ELSE LET ts == Strptime(fields[1])
             event == fields[2]
             job == <<fields[3]>>
         IN IF event = "started"
            THEN [kind |-> "ok", dn |-> dn,
                  st |-> IF job \in DOMAIN st THEN st ELSE Put(st, job, ts)]
            ELSE IF event = "done"
            THEN IF job \in DOMAIN st
                 THEN [kind |-> "ok", st |-> Pop(st, job), dn |-> Put(dn, job, ts - st[job])]
                 ELSE [kind |-> "KeyError", st |-> st, dn |-> dn]
            ELSE [kind |-> "ok", st |-> st, dn |-> dn]

\* A mutant of ReplayLine: a malformed line is skipped
ReplayLineSkipsMalformed(st, dn, fields) ==
    IF Malformed(fields) THEN [kind |-> "ok", st |-> st, dn |-> dn]
    ELSE LET ts == Strptime(fields[1])
             event == fields[2]
             job == <<fields[3]>>
         IN IF event = "started"
            THEN [kind |-> "ok", st |-> Put(st, job, ts), dn |-> dn]
            ELSE IF event = "done"
            THEN IF job \in DOMAIN st
                 THEN [kind |-> "ok", st |-> Pop(st, job), dn |-> Put(dn, job, ts - st[job])]
                 ELSE [kind |-> "KeyError", st |-> st, dn |-> dn]
            ELSE [kind |-> "ok", st |-> st, dn |-> dn]

\* The body of the loop of load_log on one line: the local dicts started and
\* done after it, or the exception it raises
ReplayLine(st, dn, fields) ==
    IF Malformed(fields) THEN [kind |-> "LogParseError", st |-> st, dn |-> dn]
    ELSE LET ts == Strptime(fields[1])
             event == fields[2]
             job == <<fields[3]>>
         IN IF event = "started"
            THEN [kind |-> "ok", st |-> Put(st, job, ts), dn |-> dn]
            ELSE IF event = "done"
            THEN IF job \in DOMAIN st
                 THEN [kind |-> "ok", st |-> Pop(st, job), dn |-> Put(dn, job, ts - st[job])]
                 ELSE [kind |-> "KeyError", st |-> st, dn |-> dn]
            ELSE [kind |-> "ok", st |-> st, dn |-> dn]

\* The loop of load_log from line i on: the done dict it ends with, or the
\* exception and the line that raised it
RECURSIVE ReplayFrom(_, _, _, _)
ReplayFrom(lines, i, st, dn) ==
    IF i > Len(lines) THEN [kind |-> "ok", line |-> 0, done |-> dn]
    ELSE LET r == ReplayLine(st, dn, lines[i]) IN
         IF r.kind = "ok" THEN ReplayFrom(lines, i + 1, r.st, r.dn)
         ELSE [kind |-> r.kind, line |-> i, done |-> EmptyMap]

load_log(lines) == ReplayFrom(lines, 1, EmptyMap, EmptyMap)

\* The local dict started of load_log once its loop has read all of lines
\* (up to the line that raises, were one to raise)
RECURSIVE ReplayStarted(_, _, _, _)
ReplayStarted(lines, i, st, dn) ==
    IF i > Len(lines) THEN st
    ELSE LET r == ReplayLine(st, dn, lines[i]) IN
         IF r.kind = "ok" THEN ReplayStarted(lines, i + 1, r.st, r.dn) ELSE st

\* ---------------------------------------------------------- admission
Max2(a, b) == IF a > b THEN a ELSE b

Min2(a, b) == IF a < b THEN a ELSE b

Running == DOMAIN started

CanStart(js, nw, st) == Max2(0, Min2(Cardinality(js), nw - Cardinality(DOMAIN st)))

_can_start == CanStart(jobs, nworkers, started)

Waiting(pcs) == {w \in Workers : pcs[w] = "wait"}

\* A mutant of Notify: one waiter fewer is woken
NotifyOneLess(pcs, n) ==
    {[w \in Workers |-> IF w \in S THEN "get" ELSE pcs[w]] :
        S \in {T \in SUBSET Waiting(pcs) :
                 Cardinality(T) = Min2(Max2(n - 1, 0), Cardinality(Waiting(pcs)))}}

\* self._waiting.notify(n): the worker threads once at most n waiters are woken;
\* a woken thread is back at taking the lock
Notify(pcs, n) ==
    {[w \in Workers |-> IF w \in S THEN "get" ELSE pcs[w]] :
        S \in {T \in SUBSET Waiting(pcs) :
                 Cardinality(T) = Min2(n, Cardinality(Waiting(pcs)))}}

\* ------------------------------------------------------- status line
\* A list of numbers in ascending order stands for the heap of _eta: its head
\* is finish[0], heappop drops the head, heappush inserts.
RECURSIVE Insert(_, _)
Insert(s, x) ==
    IF s = <<>> THEN <<x>>
    ELSE IF x <= Head(s) THEN <<x>> \o s
    ELSE <<Head(s)>> \o Insert(Tail(s), x)

\* list(m.values()), in ascending order
RECURSIVE Values(_)
Values(m) ==
    IF DOMAIN m = {} THEN <<>>
    ELSE LET k == CHOOSE x \in DOMAIN m : TRUE IN Insert(Values(Pop(m, k)), m[k])

RECURSIVE Sum(_)
Sum(s) == IF s = <<>> THEN 0 ELSE Head(s) + Sum(Tail(s))

Last(s) == s[Len(s)]

\* _fmt_eta: eta and now are in units of 1/unit second
_fmt_eta(eta, now, unit) ==
    LET sec == IF eta - now <= 0 THEN 0 ELSE (eta - now) \div unit IN
    IF sec <= 0 THEN "0"
    ELSE LET s0 == ToString(sec % 60) \o "s"
             s1 == IF 60 <= sec THEN ToString((sec \div 60) % 60) \o "m " \o s0 ELSE s0
         IN IF 60 * 60 <= sec THEN ToString((sec \div 60) \div 60) \o "h " \o s1 ELSE s1

\* while len(finish) > nworkers: heapq.heappop(finish)
RECURSIVE Shrink(_, _)
Shrink(finish, nw) == IF Len(finish) > nw THEN Shrink(Tail(finish), nw) ELSE finish

\* while len(finish) < nworkers: heapq.heappush(finish, now)
RECURSIVE Pad(_, _, _)
Pad(finish, nw, now) ==
    IF Len(finish) < nw THEN Pad(Insert(finish, now), nw, now) ELSE finish

\* A mutant of Drain: the rounds are skipped whether or not the heap is balanced
RECURSIVE DrainSkipsUnbalanced(_, _, _, _)
DrainSkipsUnbalanced(finish, njobs, nw, avg) ==
    IF njobs = 0 THEN finish
    ELSE IF njobs >= nw
    THEN LET k == njobs \div nw IN
         DrainSkipsUnbalanced([i \in 1..Len(finish) |-> finish[i] + k * avg],
                              njobs % nw, nw, avg)
    ELSE DrainSkipsUnbalanced(Insert(Tail(finish), Head(finish) + avg), njobs - 1, nw, avg)

\* while njobs: ...  with the skip of k rounds when the heap is balanced
RECURSIVE Drain(_, _, _, _)
Drain(finish, njobs, nw, avg) ==
    IF njobs = 0 THEN finish
    ELSE IF njobs >= nw /\ Last(finish) - Head(finish) < avg
    THEN LET k == njobs \div nw IN
         Drain([i \in 1..Len(finish) |-> finish[i] + k * avg], njobs % nw, nw, avg)
    ELSE Drain(Insert(Tail(finish), Head(finish) + avg), njobs - 1, nw, avg)

\* The heap _eta drains: finish = list(map(lambda t: t + avg_time, started)),
\* cut or padded to nworkers entries; st is the list started in ascending order
EtaHeap(nw, st, avg, now) ==
    Pad(Shrink([i \in 1..Len(st) |-> st[i] + avg], nw), nw, now)

\* The end of _eta, from `finish = list(map(...))` to max(finish)
MaxFinish(nw, njobs, st, avg, now) == Last(Drain(EtaHeap(nw, st, avg, now), njobs, nw, avg))

\* _eta, with avg_time = total / ndone (None when ndone = 0).  Times are
\* multiplied by ndone so that the average is the integer total.
_eta(nw, njobs, st, total, ndone, now) ==
    IF ndone = 0 \/ total = 0 THEN "?"
    ELSE IF njobs = 0
    THEN IF st = <<>> THEN "0"
         ELSE _fmt_eta(Last(st) * ndone + total, now * ndone, ndone)
    ELSE IF nw = 0 THEN "infinity"
    ELSE _fmt_eta(MaxFinish(nw, njobs, [i \in 1..Len(st) |-> st[i] * ndone], total,
                            now * ndone),
                  now * ndone, ndone)

_fmt_status(nrunning, nw, njobs, ndone, eta) ==
    "running " \o ToString(nrunning) \o "/" \o ToString(nw) \o "\t" \o
    "jobs " \o ToString(njobs) \o "/" \o ToString(ndone) \o "\t" \o
    "eta " \o eta

_status_line ==
    LET njobs == Cardinality(jobs)
        ndone == Cardinality(DOMAIN done)
        total == Sum(Values(done))
        st == Values(started)
    IN _fmt_status(Len(st), nworkers, njobs + Len(st), ndone,
                   _eta(nworkers, njobs, st, total, ndone, clock))

\* ------------------------------------------------------------- states
Fresh ==
    /\ exit = NoExit
    /\ jobs = {}
    /\ started = EmptyMap
    /\ done = EmptyMap
    /\ nworkers = 0
    /\ mtime = 0
    /\ lock = Free
    /\ nthreads = 0
    /\ cpc = "read"
    /\ upc = "scan"
    /\ ufiles = {}
    /\ wpc = [w \in Workers |-> "none"]
    /\ wjob = [w \in Workers |-> NoJob]
    /\ wts = [w \in Workers |-> 0]

Init ==
    /\ proc = "down"
    /\ log = <<>>
    /\ files = {}
    /\ dirMtime = 1
    /\ clock = 0
    /\ Fresh
    /\ eta_args = NoCall
    /\ eta_ret = NoCall

\* -------------------------------------------------------- environment
FsAdd ==
    /\ dirMtime <= Len(Arrivals)
    /\ files' = files \cup Arrivals[dirMtime]
    /\ dirMtime' = dirMtime + 1
    /\ UNCHANGED <<eta_args, eta_ret, proc, exit, log, clock, jobs, started, done, nworkers, mtime,
                   lock, nthreads, cpc, upc, ufiles, wpc, wjob, wts>>

Tick ==
    /\ clock < MaxTime
    /\ clock' = clock + 1
    /\ UNCHANGED <<eta_args, eta_ret, proc, exit, log, files, dirMtime, jobs, started, done, nworkers,
                   mtime, lock, nthreads, cpc, upc, ufiles, wpc, wjob, wts>>

\* The process is killed: every thread and all of the memory is gone, the log stays
Crash ==
    /\ proc = "up"
    /\ proc' = "down"
    /\ exit' = NoExit
    /\ jobs' = {}
    /\ started' = EmptyMap
    /\ done' = EmptyMap
    /\ nworkers' = 0
    /\ mtime' = 0
    /\ lock' = Free
    /\ nthreads' = 0
    /\ cpc' = "read"
    /\ upc' = "scan"
    /\ ufiles' = {}
    /\ wpc' = [w \in Workers |-> "none"]
    /\ wjob' = [w \in Workers |-> NoJob]
    /\ wts' = [w \in Workers |-> 0]
    /\ UNCHANGED <<eta_args, eta_ret, log, files, dirMtime, clock>>

\* ------------------------------------------------------------ startup
\* main: Runner(...), runner.load_log(), runner.start()
Start ==
    /\ proc = "down"
    /\ LET r == load_log(log) IN
         IF r.kind = "ok"
         THEN /\ proc' = "up"
              /\ done' = r.done
              /\ exit' = exit
         ELSE /\ proc' = "exited"
              /\ done' = done
              /\ exit' = [kind |-> r.kind, line |-> r.line]
    /\ UNCHANGED <<eta_args, eta_ret, log, files, dirMtime, clock, jobs, started, nworkers, mtime,
                   lock, nthreads, cpc, upc, ufiles, wpc, wjob, wts>>

\* ----------------------------------------------------- control thread
KeyPlus ==
    /\ proc = "up"
    /\ cpc = "read"
    /\ nworkers < MaxThreads
    /\ nworkers' = nworkers + 1
    /\ IF nthreads < nworkers + 1
       THEN /\ wpc' = [wpc EXCEPT ![nthreads + 1] = "get"]
            /\ nthreads' = nthreads + 1
            /\ cpc' = cpc
       ELSE /\ cpc' = "notify"
            /\ UNCHANGED <<wpc, nthreads>>
    /\ UNCHANGED <<eta_args, eta_ret, proc, exit, log, files, dirMtime, clock, jobs, started, done,
                   mtime, lock, upc, ufiles, wjob, wts>>

CtlNotify ==
    /\ proc = "up"
    /\ cpc = "notify"
    /\ lock = Free
    /\ wpc' \in Notify(wpc, _can_start)
    /\ cpc' = "read"
    /\ UNCHANGED <<eta_args, eta_ret, proc, exit, log, files, dirMtime, clock, jobs, started, done,
                   nworkers, mtime, lock, nthreads, upc, ufiles, wjob, wts>>

KeyMinus ==
    /\ proc = "up"
    /\ cpc = "read"
    /\ nworkers' = IF nworkers # 0 THEN nworkers - 1 ELSE nworkers
    /\ UNCHANGED <<eta_args, eta_ret, proc, exit, log, files, dirMtime, clock, jobs, started, done,
                   mtime, lock, nthreads, cpc, upc, ufiles, wpc, wjob, wts>>

\* ------------------------------------------------------ update thread
\* A mutant of UpdScan: the directory is listed again whether or not its mtime
\* has changed
UpdScanNoFastPath ==
    /\ proc = "up"
    /\ upc = "scan"
    /\ mtime' = dirMtime
    /\ ufiles' = {f \in files : ~StartsWithDot(f) /\ FnMatch(f)}
    /\ upc' = "update"
    /\ UNCHANGED <<eta_args, eta_ret, proc, exit, log, files, dirMtime, clock, jobs,
                   started, done, nworkers, lock, nthreads, cpc, wpc, wjob, wts>>

\* _update_jobs up to the lock: os.stat, the mtime test, os.listdir and the filter
UpdScan ==
    /\ proc = "up"
    /\ upc = "scan"
    /\ IF mtime = dirMtime
       THEN /\ upc' = "status"
            /\ UNCHANGED <<mtime, ufiles>>
       ELSE /\ mtime' = dirMtime
            /\ ufiles' = {f \in files : ~StartsWithDot(f) /\ FnMatch(f)}
            /\ upc' = "update"
    /\ UNCHANGED <<eta_args, eta_ret, proc, exit, log, files, dirMtime, clock, jobs, started, done,
                   nworkers, lock, nthreads, cpc, wpc, wjob, wts>>

\* A mutant of Pending: the done map is not consulted
PendingIgnoringDone(fs, dn, st) == {job \in fs : job \notin DOMAIN st}

\* A mutant of Pending: the running map is not consulted
PendingIgnoringStarted(fs, dn, st) == {job \in fs : job \notin DOMAIN dn}

\* The set _update_jobs builds under the lock from the listed files
Pending(fs, dn, st) == {job \in fs : job \notin DOMAIN dn /\ job \notin DOMAIN st}

UpdJobs ==
    /\ proc = "up"
    /\ upc = "update"
    /\ lock = Free
    /\ jobs' = Pending(ufiles, done, started)
    /\ wpc' \in Notify(wpc, CanStart(jobs', nworkers, started))
    /\ upc' = "status"
    /\ UNCHANGED <<eta_args, eta_ret, proc, exit, log, files, dirMtime, clock, started, done,
                   nworkers, mtime, lock, nthreads, cpc, ufiles, wjob, wts>>

\* _status_line, the print and time.sleep(1).  The line printed is _status_line
\* of the state the step is taken in; it is output, and changes no variable.
UpdStatus ==
    /\ proc = "up"
    /\ upc = "status"
    /\ lock = Free
    /\ upc' = "scan"
    /\ UNCHANGED <<eta_args, eta_ret, proc, exit, log, files, dirMtime, clock, jobs, started, done,
                   nworkers, mtime, lock, nthreads, cpc, ufiles, wpc, wjob, wts>>

\* ----------------------------------------------------- worker threads
\* Room in the log for the claim and for the report of every running job
LogRoom == Len(log) + Cardinality(Running) + 2 <= MaxLog

\* with self._lock: while not self._can_start(): self._waiting.wait()
JobGetCheck(w) ==
    /\ proc = "up"
    /\ wpc[w] = "get"
    /\ lock = Free
    /\ LogRoom
    /\ IF _can_start # 0
       THEN /\ wpc' = [wpc EXCEPT ![w] = "pop"]
            /\ lock' = w
       ELSE /\ wpc' = [wpc EXCEPT ![w] = "wait"]
            /\ lock' = lock
    /\ UNCHANGED <<eta_args, eta_ret, proc, exit, log, files, dirMtime, clock, jobs, started, done,
                   nworkers, mtime, nthreads, cpc, upc, ufiles, wjob, wts>>

\* A mutant of ClaimLog: the started line is not written
ClaimLogMissing(lg, ts, job) == lg

\* self._log_write(ts, 'started', job) of _job_get
ClaimLog(lg, ts, job) == Append(lg, LogLine(ts, "started", job))

JobGetPop(w) ==
    /\ proc = "up"
    /\ wpc[w] = "pop"
    /\ IF jobs = {}
       THEN \* set.pop() raises KeyError: the thread ends, the lock is released
            /\ wpc' = [wpc EXCEPT ![w] = "dead"]
            /\ UNCHANGED <<jobs, started, log, wjob>>
       ELSE \E job \in jobs :
              /\ jobs' = jobs \ {job}
              /\ started' = Put(started, job, clock)
              /\ log' = ClaimLog(log, clock, job)
              /\ wjob' = [wjob EXCEPT ![w] = job]
              /\ wpc' = [wpc EXCEPT ![w] = "exec"]
    /\ lock' = Free
    /\ UNCHANGED <<eta_args, eta_ret, proc, exit, files, dirMtime, clock, done, nworkers, mtime,
                   nthreads, cpc, upc, ufiles, wts>>

\* subprocess.call: it returns 0, returns another code, or raises
Execute(w) ==
    /\ proc = "up"
    /\ wpc[w] = "exec"
    /\ \E outcome \in {"zero", "nonzero", "raises"} :
         IF outcome = "raises"
         THEN /\ wpc' = [wpc EXCEPT ![w] = "dead"]
              /\ wjob' = [wjob EXCEPT ![w] = NoJob]
              /\ wts' = wts
         ELSE /\ wpc' = [wpc EXCEPT ![w] = IF outcome = "zero" THEN "done" ELSE "retry"]
              /\ wjob' = wjob
              /\ wts' = [wts EXCEPT ![w] = clock]
    /\ UNCHANGED <<eta_args, eta_ret, proc, exit, log, files, dirMtime, clock, jobs, started, done,
                   nworkers, mtime, lock, nthreads, cpc, upc, ufiles>>

JobDone(w) ==
    /\ proc = "up"
    /\ wpc[w] = "done"
    /\ lock = Free
    /\ log' = Append(log, LogLine(wts[w], "done", wjob[w]))
    /\ IF wjob[w] \in DOMAIN started
       THEN /\ done' = Put(done, wjob[w], wts[w] - started[wjob[w]])
            /\ started' = Pop(started, wjob[w])
            /\ wpc' \in Notify([wpc EXCEPT ![w] = "get"],
                                CanStart(jobs, nworkers, started'))
       ELSE \* dict.pop raises KeyError after the line is written: the thread ends
            /\ wpc' = [wpc EXCEPT ![w] = "dead"]
            /\ UNCHANGED <<done, started>>
    /\ wjob' = [wjob EXCEPT ![w] = NoJob]
    /\ wts' = [wts EXCEPT ![w] = 0]
    /\ UNCHANGED <<eta_args, eta_ret, proc, exit, files, dirMtime, clock, jobs, nworkers, mtime,
                   lock, nthreads, cpc, upc, ufiles>>

\* A mutant of Requeue: the failed job is not put back
RequeueDropped(js, job) == js

\* self._jobs.add(job) of _job_retry
Requeue(js, job) == js \cup {job}

JobRetry(w) ==
    /\ proc = "up"
    /\ wpc[w] = "retry"
    /\ lock = Free
    /\ log' = Append(log, LogLine(wts[w], "failed", wjob[w]))
    /\ IF wjob[w] \in DOMAIN started
       THEN /\ started' = Pop(started, wjob[w])
            /\ jobs' = Requeue(jobs, wjob[w])
            /\ wpc' \in Notify([wpc EXCEPT ![w] = "get"],
                                CanStart(jobs', nworkers, started'))
       ELSE \* dict.pop raises KeyError after the line is written: the thread ends
            /\ wpc' = [wpc EXCEPT ![w] = "dead"]
            /\ UNCHANGED <<jobs, started>>
    /\ wjob' = [wjob EXCEPT ![w] = NoJob]
    /\ wts' = [wts EXCEPT ![w] = 0]
    /\ UNCHANGED <<eta_args, eta_ret, proc, exit, files, dirMtime, clock, done, nworkers, mtime,
                   lock, nthreads, cpc, upc, ufiles>>

Next ==
    \/ FsAdd
    \/ Tick
    \/ Crash
    \/ Start
    \/ KeyPlus
    \/ CtlNotify
    \/ KeyMinus
    \/ UpdScan
    \/ UpdJobs
    \/ UpdStatus
    \/ \E w \in Workers : JobGetCheck(w)
    \/ \E w \in Workers : JobGetPop(w)
    \/ \E w \in Workers : Execute(w)
    \/ \E w \in Workers : JobDone(w)
    \/ \E w \in Workers : JobRetry(w)

Spec == Init /\ [][Next]_vars

\* ------------------------------------------------- one run, scheduled fairly
\* One run of the process, not killed, with every thread scheduled fairly: a
\* step of the control thread after a key, of the update thread or of a worker
\* thread that stays possible is eventually taken, and subprocess.call
\* returns or raises.  Keys and new directory entries may come or not.  The
\* clock stands still: no step of a thread depends on the time.
LiveNext ==
    \/ FsAdd
    \/ Start
    \/ KeyPlus
    \/ CtlNotify
    \/ KeyMinus
    \/ UpdScan
    \/ UpdJobs
    \/ UpdStatus
    \/ \E w \in Workers : JobGetCheck(w)
    \/ \E w \in Workers : JobGetPop(w)
    \/ \E w \in Workers : Execute(w)
    \/ \E w \in Workers : JobDone(w)
    \/ \E w \in Workers : JobRetry(w)

Fairness ==
    /\ WF_vars(CtlNotify)
    /\ WF_vars(UpdScan)
    /\ WF_vars(UpdJobs)
    /\ WF_vars(UpdStatus)
    /\ \A w \in Workers :
          /\ WF_vars(JobGetCheck(w))
          /\ WF_vars(JobGetPop(w))
          /\ WF_vars(Execute(w))
          /\ WF_vars(JobDone(w))
          /\ WF_vars(JobRetry(w))

LiveSpec == Init /\ [][LiveNext]_vars /\ Fairness

\* ------------------------------------------- startup on any log file
\* The log file is an input of startup: the process opens whatever file has the
\* log's name, written by earlier runs, by another instance running on the
\* same directory, or edited.  Here startup is run on every file of up to
\* MaxReplay lines, each with three fields (one with an unparsable timestamp)
\* or four.
ReplayLines ==
    {<<ts, event, job>> : ts \in {"0", "1"}, event \in {"started", "done", "failed"},
                          job \in {"a.txt", "b.txt"}}
    \cup {<<"x", "done", "a.txt">>, <<"0", "started", "c", "d.txt">>}

LogFiles == UNION {[1..n -> ReplayLines] : n \in 0..MaxReplay}

ReplayInit ==
    /\ proc = "down"
    /\ log \in LogFiles
    /\ files = {}
    /\ dirMtime = 1
    /\ clock = 0
    /\ Fresh
    /\ eta_args = NoCall
    /\ eta_ret = NoCall

ReplayNext == Start

ReplaySpec == ReplayInit /\ [][ReplayNext]_vars

\* ------------------------------------------------- a call of _eta alone
\* _eta is a function of its arguments and of the time: here it is called on
\* every argument list within the bounds, with pending work, a worker and an
\* average, the case in which it reaches its simulation.
Ascending(s) == \A i \in 1..(Len(s) - 1) : s[i] <= s[i + 1]

StartLists ==
    {s \in UNION {[1..n -> 0..MaxStart] : n \in 0..(MaxEtaWorkers + 1)} : Ascending(s)}

EtaAvgs == {1, 2, 3, 10}

EtaCalls ==
    [nworkers : 1..MaxEtaWorkers, njobs : 1..MaxPending, started : StartLists,
     avg_time : EtaAvgs, now : 0..MaxStart]

EtaInit ==
    /\ proc = "down"
    /\ log = <<>>
    /\ files = {}
    /\ dirMtime = 1
    /\ clock = 0
    /\ Fresh
    /\ eta_args \in EtaCalls
    /\ eta_ret = NoCall

EtaCall ==
    /\ eta_args # NoCall
    /\ eta_ret = NoCall
    /\ eta_ret' = <<MaxFinish(eta_args.nworkers, eta_args.njobs, eta_args.started,
                              eta_args.avg_time, eta_args.now)>>
    /\ UNCHANGED <<eta_args, proc, exit, log, files, dirMtime, clock, jobs, started,
                   done, nworkers, mtime, lock, nthreads, cpc, upc, ufiles, wpc, wjob,
                   wts>>

EtaNext == EtaCall

EtaSpec == EtaInit /\ [][EtaNext]_vars

\* ------------------------------------------------------ reading the log
\* The event and the job of a line, as _log_write wrote them
LineEvent(line) == line[2]

LineJob(line) == SubSeq(line, 3, Len(line))

LineTs(line) == Strptime(line[1])

\* The events of one job, in the order of the log
RECURSIVE EventsOf(_, _)
EventsOf(lines, job) ==
    IF lines = <<>> THEN <<>>
    ELSE IF LineJob(Head(lines)) = job
    THEN <<LineEvent(Head(lines))>> \o EventsOf(Tail(lines), job)
    ELSE EventsOf(Tail(lines), job)

Count(s, e) == Cardinality({i \in 1..Len(s) : s[i] = e})

JobNames == {f \in Names : ~StartsWithDot(f) /\ FnMatch(f)}

ContainersDisjoint ==
    /\ jobs \cap DOMAIN started = {}
    /\ jobs \cap DOMAIN done = {}
    /\ DOMAIN started \cap DOMAIN done = {}

\* One job is pending, one running and one done, after a rescan that listed
\* all three
ContainersDisjointWitness ==
    /\ jobs # {}
    /\ DOMAIN started # {}
    /\ DOMAIN done # {}
    /\ ufiles = JobNames
    /\ upc = "status"

\* --------------------------------------------------------------- C3
\* The step of a worker that pops a job and records its start
IsClaim(w) == wpc[w] = "pop" /\ wpc'[w] = "exec"

\* C3: at every claim the pending set is non-empty and the number of running
\* jobs is below the desired worker count as it is at that instant.
ClaimOnlyWhenAdmitted ==
    [][\A w \in Workers :
          IsClaim(w) => (jobs # {} /\ Cardinality(DOMAIN started) < nworkers)]_vars

\* --------------------------------------------------------------- C4
\* The step of a worker that reports a failure (the process is not killed)
IsRetry(w) == wpc[w] = "retry" /\ wpc'[w] # "retry" /\ proc' = "up"

\* Every started line of the job is matched by a failed or a done line
AllStartsMatched(ev) == Count(ev, "started") = Count(ev, "failed") + Count(ev, "done")

\* C4: the retry report appends a failed line for the job, removes its start
\* record, puts it back into the pending set and leaves the done map alone;
\* and a job that failed once and then succeeded has the events started,
\* failed, started, done in the log, in that order, and is in the done map.
RetryRequeues ==
    /\ [][\A w \in Workers :
            IsRetry(w) =>
                /\ Len(log') = Len(log) + 1
                /\ SubSeq(log', 1, Len(log)) = log
                /\ LineEvent(log'[Len(log')]) = "failed"
                /\ LineJob(log'[Len(log')]) = wjob[w]
                /\ wjob[w] \notin DOMAIN started'
                /\ wjob[w] \in jobs'
                /\ done' = done]_vars
    /\ [](\A job \in JobNames :
            LET ev == EventsOf(log, job) IN
            (Count(ev, "failed") = 1 /\ Count(ev, "done") = 1 /\ AllStartsMatched(ev))
                => /\ ev = <<"started", "failed", "started", "done">>
                   /\ proc = "up" => job \in DOMAIN done)

\* a.txt failed once, was claimed again and succeeded
RetryRequeuesWitness ==
    /\ proc = "up"
    /\ EventsOf(log, <<"a.txt">>) = <<"started", "failed", "started", "done">>
    /\ <<"a.txt">> \in DOMAIN done
    /\ <<"a.txt">> \notin jobs

\* --------------------------------------------------------------- C5
\* A worker that will report the job: it holds it and is alive
HasLiveWorker(job) ==
    \E w \in Workers : wjob[w] = job /\ wpc[w] \in {"exec", "done", "retry"}

\* C5: a failure to launch the command is handled like a non-zero exit: the
\* worker thread keeps running, and no job stays in the running map with no
\* worker executing it.
SpawnFailureRecovered ==
    /\ \A w \in Workers : wpc[w] # "dead"
    /\ \A job \in DOMAIN started : HasLiveWorker(job)

\* --------------------------------------------------------------- C6
\* The step of the control thread that takes a `-` with a positive count
IsDecrement == proc = "up" /\ proc' = "up" /\ cpc = "read" /\ nworkers' = nworkers - 1

\* C6: a `-` never takes the desired count below 0, leaves the pending set,
\* the running map, the done map, the log and the worker threads as they
\* are, and every job running when it is processed still reaches its done or
\* failed report: only a live worker holding the job can write that report.
DecrementKeepsWork ==
    /\ [](nworkers >= 0)
    /\ [][IsDecrement =>
            /\ UNCHANGED <<jobs, started, done, log, wpc, wjob, nthreads>>
            /\ \A job \in DOMAIN started : HasLiveWorker(job)]_vars

\* --------------------------------------------------------------- C7
\* Whether every done or failed line follows a started line of its job that no
\* earlier done or failed line has matched; open holds the jobs with such a line
RECURSIVE Matched(_, _)
Matched(lines, open) ==
    IF lines = <<>> THEN TRUE
    ELSE LET job == LineJob(Head(lines)) IN
         IF LineEvent(Head(lines)) = "started"
         THEN Matched(Tail(lines), open \cup {job})
         ELSE job \in open /\ Matched(Tail(lines), open \ {job})

\* C7: in the log every done or failed line of a job is preceded by a started
\* line of that job which no earlier done or failed line has matched.
LogWellMatched == Matched(log, {})

\* Two workers ran a.txt and b.txt at once and their lines interleave
LogWellMatchedWitness ==
    /\ Len(log) = 4
    /\ LineEvent(log[1]) = "started"
    /\ LineEvent(log[2]) = "started"
    /\ LineJob(log[1]) # LineJob(log[2])
    /\ LineEvent(log[3]) = "failed"
    /\ LineJob(log[3]) = LineJob(log[2])
    /\ LineEvent(log[4]) = "done"
    /\ LineJob(log[4]) = LineJob(log[1])

\* --------------------------------------------------------------- C8
SetMax(S) == CHOOSE x \in S : \A y \in S : y <= x

SetMin(S) == CHOOSE x \in S : \A y \in S : x <= y

LoggedJobs(lines) == {LineJob(lines[i]) : i \in 1..Len(lines)}

DoneLines(lines, job) ==
    {i \in 1..Len(lines) : LineEvent(lines[i]) = "done" /\ LineJob(lines[i]) = job}

StartsBefore(lines, job, i) ==
    {k \in 1..(i - 1) : LineEvent(lines[k]) = "started" /\ LineJob(lines[k]) = job}

WellFormedLog(lines) ==
    /\ \A i \in 1..Len(lines) : ~Malformed(lines[i])
    /\ Matched(lines, {})

BadLines(lines) == {i \in 1..Len(lines) : Malformed(lines[i])}

TwoJobsCompleted ==
    /\ proc = "up"
    /\ nworkers = 1
    /\ nthreads = 1
    /\ jobs = {}
    /\ DOMAIN started = {}
    /\ DOMAIN done = {<<"a.txt">>, <<"b.txt">>}
    /\ \A job \in DOMAIN done : done[job] > 0
    /\ \A i \in 1..Len(log) : LineEvent(log[i]) # "failed"

\* C10: the status line counts the known jobs, done ones included: once a.txt
\* and b.txt have both completed with one worker it reads running 0/1,
\* jobs 2/2, eta 0.
StatusCountsKnownJobs ==
    TwoJobsCompleted => _status_line = "running 0/1\tjobs 2/2\teta 0"

\* -------------------------------------------------------------- C11
\* The simulation with no skip: the heap minimum is replaced by itself plus avg
\* once per pending job
RECURSIVE DrainNaive(_, _, _)
DrainNaive(finish, njobs, avg) ==
    IF njobs = 0 THEN finish
    ELSE DrainNaive(Insert(Tail(finish), Head(finish) + avg), njobs - 1, avg)

\* C11: for every worker count >= 1, average > 0, pending count >= 1 and list of
\* running start times, the maximum finish time _eta computes with its skip of
\* k rounds equals the maximum finish time of the simulation that replaces the
\* heap minimum once per pending job.
FastPathIsNaive ==
    eta_ret # NoCall =>
        eta_ret[1] = Last(DrainNaive(EtaHeap(eta_args.nworkers, eta_args.started,
                                             eta_args.avg_time, eta_args.now),
                                     eta_args.njobs, eta_args.avg_time))

\* workers = 2, avg = 10, pending = 5, nothing running: k = 2 rounds are skipped
\* and the last job is drained alone
FastPathIsNaiveWitness ==
    /\ eta_args = [nworkers |-> 2, njobs |-> 5, started |-> <<>>, avg_time |-> 10,
                   now |-> 0]
    /\ eta_ret = <<30>>

\* -------------------------------------------------------------- C12
\* C12: once replay has read a failed line of a job, its record of pending
\* starts holds no entry for that job until the next started line of the job:
\* after any prefix of the log in which the last line of a job is a failed
\* line, the job has no pending start.
FailedDiscardsStart ==
    \A n \in 1..Len(log) :
        LET prefix == SubSeq(log, 1, n) IN
        (load_log(prefix).kind = "ok") =>
            \A job \in LoggedJobs(prefix) :
                Last(EventsOf(prefix, job)) = "failed" =>
                    job \notin DOMAIN ReplayStarted(prefix, 1, EmptyMap, EmptyMap)

\* -------------------------------------------------------------- C13
\* The lock is held by one thread at a time: a thread that holds it while it
\* takes a step takes that step when no other thread holds it.  The variable
\* lock names the worker that is between its admission test and its pop; the
\* other regions under the lock are one step each, taken when lock = Free.
NoOtherHolder(w) == lock = Free \/ lock = w

\* C13: every write to the pending set, the running map, the done map, the
\* mtime cache and the desired-worker counter is made by a thread that holds
\* the lock at that step: by the control thread and the update thread when no
\* worker holds it, by a worker when no other worker holds it.
SharedStateUnderLock ==
    [][(proc = "up" /\ proc' = "up") =>
          /\ nworkers' # nworkers => lock = Free
          /\ mtime' # mtime => lock = Free
          /\ (jobs' # jobs \/ started' # started \/ done' # done) =>
                \/ lock = Free
                \/ \E w \in Workers : wpc'[w] # wpc[w] /\ NoOtherHolder(w)]_vars

\* -------------------------------------------------------------- C14
\* A claim is permitted and a worker is blocked in the wait of _job_get
Stuck ==
    /\ proc = "up"
    /\ jobs # {}
    /\ Cardinality(DOMAIN started) < nworkers
    /\ \E w \in Workers : wpc[w] = "wait"
    /\ LogRoom

\* Nothing has taken away what the job needs to complete: a desired count of
\* at least 1, commands that return instead of raising (C5), and room in the
\* log for its lines while it is pending
Favourable(job) ==
    /\ proc = "up"
    /\ nworkers >= 1
    /\ \A w \in Workers : wpc[w] # "dead"
    /\ job \in jobs => LogRoom

\* C14: under fair scheduling it never happens that from some point on the
\* pending set is non-empty, fewer jobs run than workers are desired and a
\* worker stays blocked in the wait: a waiter is woken and a claim is made.
\* Consequently a pending job reaches the done map if the desired count stays
\* at least 1 and its command comes to return 0.
NoLostWakeup ==
    /\ []<>(~Stuck)
    /\ \A job \in JobNames :
          (job \in jobs) ~> (job \in DOMAIN done \/ ~Favourable(job))

\* Both worker threads are blocked in the wait, a job is pending, and a `+` has
\* raised the desired count from 0 and taken the notify branch: only that
\* notify can wake a worker
NoLostWakeupWitness ==
    /\ Stuck
    /\ cpc = "notify"
    /\ nthreads = MaxThreads
    /\ \A w \in Workers : wpc[w] = "wait"

\* -------------------------------------------------------------- C15
\* C15: once the startup replay has completed, in every state in which the
\* lock is not held, replaying the log as written so far succeeds and yields
\* exactly the done map in memory, the durations included: a restart after a
\* crash at that point restores the done map of the crashed run.
CrashConsistent ==
    (proc = "up" /\ lock = Free) =>
        /\ load_log(log).kind = "ok"
        /\ load_log(log).done = done

\* -------------------------------------------------------------- C16
\* The step of the control thread that takes a `+`
IsPlus == proc = "up" /\ proc' = "up" /\ nworkers' = nworkers + 1

\* The worker threads that exist: spawned, and not ended
WorkerThreads == {w \in Workers : wpc[w] \notin {"none", "dead"}}

\* C16: a `+` spawns exactly one worker thread when fewer threads were spawned
\* than the new desired count, and none otherwise; no worker thread ever goes
\* away; hence within a run the number of worker threads is the maximum the
\* desired count has had, is at least the desired count, and never decreases.
PoolMatchesDesired ==
    /\ [][IsPlus =>
            IF nthreads < nworkers'
            THEN /\ nthreads' = nthreads + 1
                 /\ \E w \in Workers \ WorkerThreads :
                       /\ WorkerThreads' = WorkerThreads \cup {w}
                       /\ wpc'[w] = "get"
            ELSE /\ nthreads' = nthreads
                 /\ wpc' = wpc
                 /\ cpc' = "notify"]_vars
    /\ [][(proc = "up" /\ proc' = "up") =>
            /\ WorkerThreads \subseteq WorkerThreads'
            /\ Cardinality(WorkerThreads') = Max2(Cardinality(WorkerThreads), nworkers')]_vars
    /\ [](Cardinality(WorkerThreads) >= nworkers)

\* -------------------------------------------------------------- C17
\* The ETA _status_line computes in the current state
EtaNow ==
    _eta(nworkers, Cardinality(jobs), Values(started), Sum(Values(done)),
         Cardinality(DOMAIN done), clock)

\* C17: the ETA is '?' exactly when no job has completed; otherwise, with
\* nothing pending and nothing running it is '0', with nothing pending and
\* some job running it is the latest start time plus the average, and with
\* pending work and a desired count of 0 it is infinite.
EtaSpecialCases ==
    LET ndone == Cardinality(DOMAIN done)
        total == Sum(Values(done))
        st == Values(started)
    IN proc = "up" =>
         /\ EtaNow = "?" <=> ndone = 0
         /\ (ndone # 0 /\ jobs = {} /\ st = <<>>) => EtaNow = "0"
         /\ (ndone # 0 /\ jobs = {} /\ st # <<>>) =>
                EtaNow = _fmt_eta(Last(st) * ndone + total, clock * ndone, ndone)
         /\ (ndone # 0 /\ jobs # {} /\ nworkers = 0) => EtaNow = "infinity"

\* -------------------------------------------------------------- C18
\* C18: every line the runner appends to the log splits into exactly three
\* fields, whatever job name the rescan admitted, so that replaying a log the
\* runner wrote never fails with LogParseError.
WrittenLinesReplayable ==
    /\ \A i \in 1..Len(log) : Len(log[i]) = 3
    /\ load_log(log).kind # "LogParseError"
    /\ exit.kind # "LogParseError"

\* -------------------------------------------------------------- C19
\* A done line of a job with no unmatched started line before it: the last
\* line of the job before it, if there is one, is not a started line
OrphanDone(lines) ==
    \E i \in 1..Len(lines) :
        /\ LineEvent(lines[i]) = "done"
        /\ LET ev == EventsOf(SubSeq(lines, 1, i - 1), LineJob(lines[i])) IN
             ev = <<>> \/ Last(ev) # "started"

\* C19: startup on an existing log file either installs the done map of the
\* whole file or fails with LogParseError; a file with a done line that no
\* started line precedes fails with LogParseError, not with another error.
ReplayTwoOutcomes ==
    /\ proc = "exited" => exit.kind = "LogParseError"
    /\ (proc # "down" /\ OrphanDone(log)) =>
            (proc = "exited" /\ exit.kind = "LogParseError")

\* -------------------------------------------------------------- C20
\* The step of the update thread that stats the directory and finds the mtime
\* it has cached
IsUnchangedRescan ==
    proc = "up" /\ proc' = "up" /\ upc = "scan" /\ upc' # "scan" /\ mtime = dirMtime

\* C20: a rescan made while the directory's mtime equals the cached one returns
\* at once: it leaves the pending set, the running map, the done map, the
\* mtime cache, the listing and the log as they are and wakes no waiter,
\* every time, whatever was claimed, completed or requeued since the last
\* effective scan.
RescanUnchangedIsNoOp ==
    [][IsUnchangedRescan =>
          /\ upc' = "status"
          /\ UNCHANGED <<jobs, started, done, mtime, ufiles, log, wpc, wjob, nworkers>>]_vars

\* A job that failed was requeued and is pending, a worker is blocked in the
\* wait, and the update thread is back from a rescan of the unchanged directory
RescanUnchangedIsNoOpWitness ==
    /\ proc = "up"
    /\ upc = "status"
    /\ mtime = dirMtime
    /\ \E w \in Workers : wpc[w] = "wait"
    /\ \E job \in jobs :
          /\ EventsOf(log, job) # <<>>
          /\ Last(EventsOf(log, job)) = "failed"

=============================================================================
